---- MODULE Spec2Model ----
(***************************************************************************)
(* Model of the cubequery processing tasks (src/processes/*.py).           *)
(*                                                                         *)
(* Two kinds of state are modelled.  The per-pixel data path of the tasks  *)
(* (water occurrence, water masking, anomaly, threshold classification)    *)
(* is modelled on one pixel: every raster operation of the tasks is        *)
(* element-wise, so one pixel carries the whole semantics.  The control    *)
(* flow of generate_product (platform resolution, loads, emptiness checks, *)
(* table lookups, compute, writes) is modelled as a program counter over   *)
(* the statements of each task, entered through the keyword binding of     *)
(* the call.  The archive tasks (request and mean over time) and the       *)
(* WaterQuality statistics have a specification of their own.              *)
(*                                                                         *)
(* Raster values are exact rationals <<num, den>> (den > 0, lowest terms)  *)
(* or NaN; comparisons with NaN are false and arithmetic with NaN is NaN,  *)
(* as in numpy.                                                            *)
(***************************************************************************)
EXTENDS Integers, Sequences, FiniteSets, TLC

VARIABLES
    task,               \* the CubeQueryTask whose generate_product runs
    pc,                 \* position inside generate_product
    water_scenes,       \* period -> raw water classification time series at the pixel
    water_composite,    \* period -> water occurrence (mean over time)
    wc_rc_int,          \* period -> WaterChange class after the first replacement
    wc_rc,              \* period -> WaterChange binary class
    parameter_composite,\* period -> derived index value at the pixel
    vegetation,         \* period -> index value after the water mask
    parameter_anomaly,  \* analysis minus baseline
    minC,               \* threshold parameter
    maxC,               \* threshold parameter
    b,                  \* vegetation_change.py:308
    c,                  \* vegetation_change.py:309
    d,                  \* vegetation_change.py:310 (param_thres)
    platform,           \* period -> platform identifier passed to the task
    mosaic_type,        \* reducer selector passed to the task
    indices,            \* index name passed to the task
    product,            \* period -> product names resolved from the platform
    cube,               \* cube name -> dataset returned by dc.load
    stmt,               \* index of the next statement of generate_product
    log,                \* statements of generate_product executed so far
    error,              \* the exception raised, or "none"
    xx_data,            \* period -> time series of band vectors at the pixel (int16)
    clean_mask,         \* period -> time series of the good-quality flag
    ds_masked,          \* period -> time series after keep_good_only
    composite,          \* period -> band vector of the composite
    year,               \* the year argument of the archive tasks
    difference,         \* WaterChange: analysis class minus baseline class
    difference_range,   \* WaterChange: analysis occurrence minus baseline occurrence
    tsm_scenes,         \* WaterQuality: the TSM of each time step's observation
    tsm_dataset,        \* WaterQuality: TSM time series after the masks
    mean_tsm,           \* WaterQuality outputs
    max_tsm,
    min_tsm

waterVars == <<water_scenes, water_composite, wc_rc_int, wc_rc, difference, difference_range>>
anomalyVars == <<parameter_composite, vegetation, parameter_anomaly>>
thresVars == <<minC, maxC, b, c, d>>

flowVars == <<platform, mosaic_type, indices, product, cube, stmt, log, error>>

compVars == <<xx_data, clean_mask, ds_masked, composite>>

archiveVars == <<year>>

qualityVars == <<tsm_scenes, tsm_dataset, mean_tsm, max_tsm, min_tsm>>

vars == <<task, pc, waterVars, anomalyVars, thresVars, flowVars, compVars, archiveVars,
         qualityVars>>

----------------------------------------------------------------------------
(* Numbers *)

NaN == <<>>

IsNaN(x) == x = NaN

Abs(n) == IF n < 0 THEN -n ELSE n

RECURSIVE GCD(_, _)
GCD(m, n) == IF n = 0 THEN m ELSE GCD(n, m % n)

\* the rational n/den in lowest terms, den > 0
Frac(n, den) == LET g == GCD(Abs(n), den) IN <<n \div g, den \div g>>

Num(n) == <<n, 1>>

Lt(x, y) == ~IsNaN(x) /\ ~IsNaN(y) /\ x[1] * y[2] < y[1] * x[2]
Le(x, y) == ~IsNaN(x) /\ ~IsNaN(y) /\ x[1] * y[2] <= y[1] * x[2]
Gt(x, y) == Lt(y, x)
Ge(x, y) == Le(y, x)
Ne(x, y) == IsNaN(x) \/ IsNaN(y) \/ x[1] * y[2] # y[1] * x[2]

Add(x, y) == IF IsNaN(x) \/ IsNaN(y) THEN NaN
             ELSE Frac(x[1] * y[2] + y[1] * x[2], x[2] * y[2])

Sub(x, y) == IF IsNaN(x) \/ IsNaN(y) THEN NaN
             ELSE Frac(x[1] * y[2] - y[1] * x[2], x[2] * y[2])

\* division of the index formulas: a zero or nodata denominator gives nodata
Div(x, y) == IF IsNaN(x) \/ IsNaN(y) \/ y[1] = 0 THEN NaN
             ELSE IF y[1] < 0 THEN Frac(-(x[1] * y[2]), -(y[1] * x[2]))
             ELSE Frac(x[1] * y[2], y[1] * x[2])

Mul(x, y) == IF IsNaN(x) \/ IsNaN(y) THEN NaN
             ELSE Frac(x[1] * y[1], x[2] * y[2])

\* xarray where: keep the value where cond holds, else replace by other
Where(x, cond, other) == IF cond THEN x ELSE other

Unset == <<"unset">>

Periods == {"baseline", "analysis"}

----------------------------------------------------------------------------
(* Water occurrence: nodata masking and mean over time *)

NoDataValue == -9999

\* water_change.py:151, fractional_cover.py:142, land_change.py:182,235,
\* vegetation_change.py:255, ndvi_anomaly.py:231: ds.where(ds >= 0)
WhereNonNegative(s) == [i \in DOMAIN s |-> Where(Num(s[i]), s[i] >= 0, NaN)]

\* water_permanency.py:96: ds.where(ds != -9999)
WhereNotNoData(s) == [i \in DOMAIN s |-> Where(Num(s[i]), s[i] # NoDataValue, NaN)]

RECURSIVE NanSum(_)
NanSum(s) == IF s = <<>> THEN Num(0)
             ELSE IF IsNaN(Head(s)) THEN NanSum(Tail(s))
             ELSE Add(Head(s), NanSum(Tail(s)))

RECURSIVE NanCount(_)
NanCount(s) == IF s = <<>> THEN 0
               ELSE IF IsNaN(Head(s)) THEN NanCount(Tail(s))
               ELSE 1 + NanCount(Tail(s))

\* a mean that counts the masked time steps as zeros
MeanTime_fillzero(s) == Frac(NanSum(s)[1], NanSum(s)[2] * Len(s))
\* DataArray.mean(dim="time"): NaN entries are skipped, all-NaN gives NaN
MeanTime(s) == IF NanCount(s) = 0 THEN NaN
               ELSE Frac(NanSum(s)[1], NanSum(s)[2] * NanCount(s))

WaterOccurrence(t, s) ==
    IF t = "WaterPermanency" THEN MeanTime(WhereNotNoData(s))
    ELSE MeanTime(WhereNonNegative(s))

\* WaterChange re-quantisation, water_change.py:157-172
waterpres_prob == Frac(3, 10)

RcInt_le(m) == Where(m, Le(m, waterpres_prob) \/ IsNaN(m), Num(1))
RcInt(m) == Where(m, Lt(m, waterpres_prob) \/ IsNaN(m), Num(1))

Rc(m, r) == Where(r, Ge(r, waterpres_prob) \/ IsNaN(m), Num(0))

\* tasks that compute a water occurrence, and the periods they process
TwoPeriodTasks == {"WaterChange", "LandChange", "VegetationChange", "NDVIAnomaly"}
WaterTasks == TwoPeriodTasks \cup {"WaterPermanency", "FractionalCover"}
PeriodsOf(t) == IF t \in TwoPeriodTasks THEN Periods ELSE {"baseline"}

\* a time series with n nodata scenes, w water scenes and dry no-water scenes
SeriesOf(n, w, dry) ==
    [i \in 1..(n + w + dry) |->
        IF i <= n THEN NoDataValue ELSE IF i <= n + w THEN 1 ELSE 0]

WaterSeries(maxValid, maxNoData) ==
    {SeriesOf(n, w, dry) : <<n, w, dry>> \in
        {x \in (0..maxNoData) \X (0..maxValid) \X (0..maxValid) :
            x[2] + x[3] <= maxValid /\ x[1] + x[2] + x[3] >= 1}}

MaxScenes == 10
MaxNoDataScenes == 1

UnsetQuality ==
    /\ tsm_scenes = Unset
    /\ tsm_dataset = Unset
    /\ mean_tsm = Unset
    /\ max_tsm = Unset
    /\ min_tsm = Unset

UnsetWater ==
    /\ water_composite = Unset
    /\ wc_rc_int = Unset
    /\ wc_rc = Unset
    /\ difference = Unset
    /\ difference_range = Unset
UnsetAnomaly == parameter_composite = Unset /\ vegetation = Unset /\ parameter_anomaly = Unset
UnsetFlow ==
    /\ platform = Unset
    /\ mosaic_type = ""
    /\ indices = ""
    /\ product = Unset
    /\ cube = Unset
    /\ stmt = 0
    /\ log = <<>>
    /\ error = "none"
    /\ year = 0

UnsetThres == minC = Unset /\ maxC = Unset /\ b = Unset /\ c = Unset /\ d = Unset

UnsetComposite == xx_data = Unset /\ clean_mask = Unset /\ ds_masked = Unset /\ composite = Unset

InitWater ==
    /\ task \in WaterTasks
    /\ pc = "loaded"
    /\ water_scenes \in [PeriodsOf(task) -> WaterSeries(MaxScenes, MaxNoDataScenes)]
    /\ UnsetWater
    /\ UnsetQuality
    /\ UnsetAnomaly
    /\ UnsetThres
    /\ UnsetFlow
    /\ UnsetComposite

MeanOverTime(t) ==
    /\ task = t
    /\ pc = "loaded"
    /\ water_composite' = [p \in DOMAIN water_scenes |-> WaterOccurrence(t, water_scenes[p])]
    /\ pc' = "water_composite"
    /\ UNCHANGED <<task, year, qualityVars, water_scenes, wc_rc_int, wc_rc, difference, difference_range,
                   anomalyVars, thresVars, flowVars, compVars>>

WaterChangeMean == MeanOverTime("WaterChange")
WaterPermanencyMean == MeanOverTime("WaterPermanency")
FractionalCoverMean == MeanOverTime("FractionalCover")
LandChangeMean == MeanOverTime("LandChange")
VegetationChangeMean == MeanOverTime("VegetationChange")
NDVIAnomalyMean == MeanOverTime("NDVIAnomaly")

WaterChangeRequantize ==
    /\ task = "WaterChange"
    /\ pc = "water_composite"
    /\ wc_rc_int' = [p \in Periods |-> RcInt(water_composite[p])]
    /\ wc_rc' = [p \in Periods |-> Rc(water_composite[p], RcInt(water_composite[p]))]
    /\ pc' = "requantized"
    /\ UNCHANGED <<task, year, qualityVars, water_scenes, water_composite, difference, difference_range,
                   anomalyVars, thresVars, flowVars, compVars>>

\* a class difference taken as baseline minus analysis
Difference_swapped(analysis, baseline) == Sub(baseline, analysis)
\* water_change.py:176: wc_analysis_rc - wc_baseline_rc
Difference(analysis, baseline) == Sub(analysis, baseline)

\* water_change.py:176-177
WaterChangeDifference ==
    /\ task = "WaterChange"
    /\ pc = "requantized"
    /\ difference' = Difference(wc_rc["analysis"], wc_rc["baseline"])
    /\ difference_range' = Sub(water_composite["analysis"], water_composite["baseline"])
    /\ pc' = "difference"
    /\ UNCHANGED <<task, year, qualityVars, water_scenes, water_composite, wc_rc_int, wc_rc, anomalyVars,
                   thresVars, flowVars, compVars>>

NextWater ==
    \/ WaterChangeMean
    \/ WaterPermanencyMean
    \/ FractionalCoverMean
    \/ LandChangeMean
    \/ VegetationChangeMean
    \/ NDVIAnomalyMean
    \/ WaterChangeRequantize
    \/ WaterChangeDifference

SpecWater == InitWater /\ [][NextWater]_vars

----------------------------------------------------------------------------
(* Change detection: water mask and anomaly of VegetationChange,           *)
(* LandChange and NDVIAnomaly.  parameter_composite is the derived index   *)
(* of each period's composite at the pixel; the index formulas are         *)
(* pixel-wise and map a nodata composite to nodata, so masking the         *)
(* composite before the index (NDVIAnomaly) masks the index.               *)

ChangeTasks == {"VegetationChange", "LandChange", "NDVIAnomaly"}

water_threshold == Frac(4, 10)

Sentinel == Num(NoDataValue)

\* vegetation_change.py:291-296
MaskVegetationChange_keepnan(x, occ) ==
    Where(Where(x, ~Gt(occ, water_threshold), NaN), Ne(x, Sentinel), NaN)
MaskVegetationChange(x, occ) ==
    Where(Where(x, Le(occ, water_threshold), NaN), Ne(x, Sentinel), NaN)

\* land_change.py:265-271
MaskLandChange(x, occ) ==
    Where(x, Le(occ, water_threshold) /\ Ne(x, Sentinel), NaN)

\* ndvi_anomaly.py:239-247; composite != np.nan is true of every value
MaskNDVIAnomaly(x, occ) ==
    Where(x, Ne(x, NaN) /\ (~IsNaN(occ) /\ occ = Num(0)), NaN)

\* vegetation_change.py:298, land_change.py:272, ndvi_anomaly.py:249
Anomaly_add(analysis, baseline) == Add(analysis, baseline)
Anomaly(analysis, baseline) == Sub(analysis, baseline)

IndexValues == {NaN, Sentinel, Frac(2, 10), Num(50)}
NDVIValues == {NaN, Frac(2, 10), Frac(-5, 10)}
IndexValuesOf(t) == IF t = "NDVIAnomaly" THEN NDVIValues ELSE IndexValues

MaxScenesPerPeriod == 5

InitAnomaly ==
    /\ task \in ChangeTasks
    /\ pc = "loaded"
    /\ water_scenes \in [Periods -> WaterSeries(MaxScenesPerPeriod, MaxNoDataScenes)]
    /\ UnsetWater
    /\ UnsetQuality
    /\ parameter_composite \in [Periods -> IndexValuesOf(task)]
    /\ vegetation = Unset
    /\ parameter_anomaly = Unset
    /\ UnsetThres
    /\ UnsetFlow
    /\ UnsetComposite

\* the water mask of task t
MaskOf(t, x, occ) ==
    CASE t = "VegetationChange" -> MaskVegetationChange(x, occ)
      [] t = "LandChange" -> MaskLandChange(x, occ)
      [] t = "NDVIAnomaly" -> MaskNDVIAnomaly(x, occ)

ApplyWaterMask(t) ==
    /\ task = t
    /\ pc = "water_composite"
    /\ parameter_composite # Unset
    /\ vegetation' = [p \in Periods |-> MaskOf(t, parameter_composite[p], water_composite[p])]
    /\ pc' = "masked"
    /\ UNCHANGED <<task, year, qualityVars, waterVars, parameter_composite, parameter_anomaly, thresVars, flowVars, compVars>>

VegetationChangeMask == ApplyWaterMask("VegetationChange")
LandChangeMask == ApplyWaterMask("LandChange")
NDVIAnomalyMask == ApplyWaterMask("NDVIAnomaly")

ComputeAnomaly ==
    /\ pc = "masked"
    /\ parameter_anomaly' = Anomaly(vegetation["analysis"], vegetation["baseline"])
    /\ pc' = "anomaly"
    /\ UNCHANGED <<task, year, qualityVars, waterVars, parameter_composite, vegetation, thresVars, flowVars, compVars>>

NextAnomaly ==
    \/ LandChangeMean
    \/ VegetationChangeMean
    \/ NDVIAnomalyMean
    \/ VegetationChangeMask
    \/ LandChangeMask
    \/ NDVIAnomalyMask
    \/ ComputeAnomaly

SpecAnomaly == InitAnomaly /\ [][NextAnomaly]_vars

----------------------------------------------------------------------------
(* VegetationChange threshold product, vegetation_change.py:304-311 *)

IncreaseCode == Num(200)
DecreaseCode == Num(300)
NoChangeCode == Num(100)

no_data_mask == IsNaN(parameter_anomaly)

ThresB_lt(a) == Where(a, Le(a, maxC) \/ no_data_mask, IncreaseCode)
ThresB_nomask(a) == Where(a, Lt(a, maxC), IncreaseCode)
ThresB(a) == Where(a, Lt(a, maxC) \/ no_data_mask, IncreaseCode)

\* a second replacement that keeps a value equal to minC
ThresC_ge(x) == Where(x, Ge(x, minC) \/ no_data_mask, DecreaseCode)
ThresC(x) == Where(x, Gt(x, minC) \/ no_data_mask, DecreaseCode)

ThresD(x) == Where(x, (Ge(x, maxC) \/ Le(x, minC)) \/ no_data_mask, NoChangeCode)

\* declared range of minC and maxC is [-100, 100]
ThresholdValues == {Num(-100), Frac(-2, 10), Num(0), Frac(2, 10), Num(100)}

AnomalyValues == {NaN, Num(-250), Num(-100), Frac(-25, 100), Frac(-2, 10), Num(0),
                  Frac(1, 10), Frac(2, 10), Frac(25, 100), Num(100), Num(150),
                  Num(200), Num(300)}

InitThreshold ==
    /\ task = "VegetationChange"
    /\ pc = "anomaly_output"
    /\ water_scenes = Unset
    /\ UnsetWater
    /\ UnsetQuality
    /\ parameter_composite = Unset
    /\ vegetation = Unset
    /\ parameter_anomaly \in AnomalyValues
    /\ minC \in ThresholdValues
    /\ maxC \in ThresholdValues
    /\ b = Unset
    /\ c = Unset
    /\ d = Unset
    /\ UnsetFlow
    /\ UnsetComposite

StepB ==
    /\ pc = "anomaly_output"
    /\ b' = ThresB(parameter_anomaly)
    /\ pc' = "b"
    /\ UNCHANGED <<task, year, qualityVars, waterVars, anomalyVars, minC, maxC, c, d, flowVars, compVars>>

StepC ==
    /\ pc = "b"
    /\ c' = ThresC(b)
    /\ pc' = "c"
    /\ UNCHANGED <<task, year, qualityVars, waterVars, anomalyVars, minC, maxC, b, d, flowVars, compVars>>

StepD ==
    /\ pc = "c"
    /\ d' = ThresD(c)
    /\ pc' = "param_thres"
    /\ UNCHANGED <<task, year, qualityVars, waterVars, anomalyVars, minC, maxC, b, c, flowVars, compVars>>

NextThreshold == StepB \/ StepC \/ StepD

SpecThreshold == InitThreshold /\ [][NextThreshold]_vars

----------------------------------------------------------------------------
(* Control flow of generate_product *)

(* Platform identifiers are sequences of tokens: the literal prefixes and  *)
(* single characters that the platform tests of the code distinguish.      *)
Digits == {"2", "4", "5", "7", "8", "9"}

SENTINEL_2 == <<"SENTINEL_", "2">>
LANDSAT_4 == <<"LANDSAT_", "4">>
LANDSAT_5 == <<"LANDSAT_", "5">>
LANDSAT_7 == <<"LANDSAT_", "7">>
LANDSAT_8 == <<"LANDSAT_", "8">>

RecognizedPlatforms == {SENTINEL_2, LANDSAT_4, LANDSAT_5, LANDSAT_7, LANDSAT_8}

PlatformIds == RecognizedPlatforms \cup
    {<<"LANDSAT_", "9">>, <<"X", "LANDSAT_", "8">>, <<"LANDSAT_">>, <<"MODIS">>}

\* re.search("LANDSAT_(\d)", platform): positions where the pattern matches
LandsatMatches(p) ==
    {i \in 1..(Len(p) - 1) : p[i] = "LANDSAT_" /\ p[i + 1] \in Digits}

FirstMatch(p) == CHOOSE i \in LandsatMatches(p) : \A j \in LandsatMatches(p) : i <= j

NoProduct == [raised |-> TRUE, product |-> <<>>, qa |-> "", water_product |-> <<>>]

\* utils.py:36-52, ndvi_anomaly.py:273-289
create_product_measurement(p) ==
    IF p = SENTINEL_2
    THEN [raised |-> FALSE,
          product |-> <<"s2_esa_sr_granule">>,
          qa |-> "scene_classification",
          water_product |-> <<"SENTINEL_2_PRODUCT DEFS">>]
    ELSE IF LandsatMatches(p) # {}
    THEN [raised |-> FALSE,
          product |-> <<"ls", p[FirstMatch(p) + 1], "_usgs_sr_scene">>,
          qa |-> "pixel_qa",
          water_product |-> <<"ls", p[FirstMatch(p) + 1], "_water_classification">>]
    ELSE NoProduct

\* annual_data_products.py:105-113
map_satellite(p) ==
    IF p \in {LANDSAT_4, LANDSAT_5, LANDSAT_7, LANDSAT_8}
    THEN [raised |-> FALSE, product |-> <<"ls", p[2]>>, qa |-> "", water_product |-> <<>>]
    ELSE NoProduct

\* the platform_base / platform test that guards the water loads
IsDaskableLandsat(p) == p \in {LANDSAT_8, LANDSAT_7, LANDSAT_5, LANDSAT_4}

(* Datasets returned by dc.load: number of dimensions and of data variables *)
DataCube == [dims |-> 3, data_vars |-> 7]
NoDimsCube == [dims |-> 0, data_vars |-> 0]
NoVarsCube == [dims |-> 3, data_vars |-> 0]
CubeKinds == {DataCube, NoDimsCube, NoVarsCube}

\* utils.py:55-63
is_dataset_empty(ds) == ds.dims = 0 \/ ds.data_vars = 0

(* Reducer and index tables *)
MosaicTypes == {"median", "mean", "max", "min", "max_ndvi", "geomedian", "bogus"}
IndexNames == {"NDVI", "EVI", "NDWI", "FC", "bogus"}

\* a variant in which the table of VegetationChange names the max-index
\* reducer "max_ndvi", as the table of NDVIAnomaly does
mosaic_function_max_ndvi(t) ==
    IF t = "AggregateIndices" THEN {"median", "max", "mean", "min"}
    ELSE IF t = "NDVIAnomaly" THEN {"median", "mean", "max_ndvi"}
    ELSE IF t = "VegetationChange" THEN {"median", "max_ndvi", "mean"}
    ELSE {}

\* aggregate_indices.py:130-135, ndvi_anomaly.py:209-213, vegetation_change.py:236-240
mosaic_function(t) ==
    IF t = "AggregateIndices" THEN {"median", "max", "mean", "min"}
    ELSE IF t = "NDVIAnomaly" THEN {"median", "mean", "max_ndvi"}
    ELSE IF t = "VegetationChange" THEN {"median", "max", "mean"}
    ELSE {}

\* aggregate_indices.py:141, vegetation_change.py:28-32
indices_function(t) ==
    IF t = "AggregateIndices" THEN {"NDVI", "NDWI", "EVI"}
    ELSE IF t = "VegetationChange" THEN {"NDVI", "EVI", "FC"}
    ELSE {}

\* a lookup with a default entry never raises
LookupRaises_default(table, key) == FALSE
\* mosaic_function[mosaic_type], indices_function[indices], and the if/elif
\* chain of createparametercomposite that leaves its result unbound
LookupRaises(table, key) == key \notin table

Tasks == {"AggregateIndices", "AnnualDataProducts", "ArchiveAccess", "FractionalCover",
          "LandChange", "NDVIAnomaly", "VegetationChange", "WaterChange",
          "WaterPermanency", "WaterQuality"}

MosaicTasks == {"AggregateIndices", "NDVIAnomaly", "VegetationChange"}
IndexTasks == {"AggregateIndices", "VegetationChange"}

\* the platform arguments generate_product takes
PlatformArgs(t) ==
    IF t \in {"LandChange", "NDVIAnomaly", "VegetationChange", "WaterChange"} THEN Periods
    ELSE IF t = "ArchiveAccess" THEN {}
    ELSE {"baseline"}

(* generate_product of each task as its sequence of statements.  arg names *)
(* the period, cube or file the statement works on; line is the source     *)
(* line of the statement.                                                  *)
S(op, arg, line) == [op |-> op, arg |-> arg, line |-> line]

\* aggregate_indices.py:97-162
ProgAggregateIndices == <<
    S("resolve", "baseline", 104), S("load", "baseline", 112),
    S("check_empty", "baseline", 120), S("mask_good_quality", "baseline", 126),
    S("lookup_mosaic", "", 136), S("composite", "baseline", 137),
    S("lookup_index", "", 142), S("index", "baseline", 143),
    S("compute", "", 147), S("write", "indices_composite", 153), S("return", "", 162) >>

\* annual_data_products.py:75-102
ProgAnnualDataProducts == <<
    S("map_satellite", "baseline", 82), S("load", "baseline", 84),
    S("check_empty", "baseline", 85), S("rename", "baseline", 90),
    S("mean", "baseline", 91), S("write", "archive", 94), S("return", "", 102) >>

\* archive_access.py:58-79
ProgArchiveAccess == <<
    S("load", "baseline", 65), S("rename", "baseline", 67),
    S("mean", "baseline", 68), S("write", "archive", 71), S("return", "", 79) >>

\* fractional_cover.py:107-182
ProgFractionalCover == <<
    S("resolve", "baseline", 114), S("load", "baseline", 122),
    S("check_empty", "baseline", 130), S("load_water", "water_baseline", 136),
    S("where", "water_baseline", 142), S("mean", "water_baseline", 144),
    S("rename", "water_baseline", 145), S("geomedian_helper", "baseline", 149),
    S("rename", "baseline", 150), S("index", "baseline", 154), S("water_mask", "baseline", 159),
    S("compute", "", 165), S("write", "fractional_cover", 173), S("return", "", 182) >>

\* land_change.py:126-338
ProgLandChange == <<
    S("resolve", "baseline", 135), S("resolve", "analysis", 138),
    S("load", "baseline", 147), S("load", "analysis", 155),
    S("check_empty", "baseline", 163), S("check_empty", "analysis", 169),
    S("require_landsat", "baseline", 175),
    S("load_water", "water_baseline", 176), S("where", "water_baseline", 182),
    S("load_water", "water_analysis", 185), S("where", "water_analysis", 191),
    S("mask_good_quality", "baseline", 197), S("mask_good_quality", "analysis", 198),
    S("keep_good_only", "baseline", 203), S("keep_good_only", "analysis", 204),
    S("xr_geomedian", "baseline", 212), S("xr_geomedian", "analysis", 224),
    S("where", "water_baseline", 235), S("where", "water_analysis", 236),
    S("mean", "water_baseline", 238), S("mean", "water_analysis", 239),
    S("rename", "baseline", 243), S("rename", "water_baseline", 246),
    S("rename", "analysis", 249), S("rename", "water_analysis", 252),
    S("index", "baseline", 258), S("index", "analysis", 261),
    S("water_mask", "baseline", 265), S("water_mask", "analysis", 269),
    S("anomaly", "", 272), S("compute", "", 276),
    S("write", "land_change", 292), S("write", "bs_change", 304),
    S("write", "pv_change", 316), S("write", "npv_change", 328), S("return", "", 338) >>

\* ndvi_anomaly.py:120-270
ProgNDVIAnomaly == <<
    S("resolve", "baseline", 138), S("resolve", "analysis", 141),
    S("load", "baseline", 161), S("load", "analysis", 169),
    S("check_empty", "baseline", 177), S("check_empty", "analysis", 183),
    S("require_landsat", "baseline", 189),
    S("load_water", "water_baseline", 190), S("load_water", "water_analysis", 195),
    S("mask_good_quality", "baseline", 203), S("mask_good_quality", "analysis", 204),
    S("where", "baseline", 206), S("where", "analysis", 207),
    S("lookup_mosaic", "", 215),
    S("composite", "baseline", 221), S("composite", "analysis", 222),
    S("where", "water_baseline", 231), S("where", "water_analysis", 232),
    S("mean", "water_baseline", 234), S("mean", "water_analysis", 235),
    S("water_mask", "baseline", 239), S("water_mask", "analysis", 242),
    S("index", "baseline", 246), S("index", "analysis", 247),
    S("anomaly", "", 249), S("compute", "", 253),
    S("write", "ndvi_anomaly", 261), S("return", "", 270) >>

\* vegetation_change.py:228-247: the geomedian branch or the table lookup
CompositeBranch(m) ==
    IF m = "geomedian"
    THEN << S("geomedian_helper", "baseline", 229), S("geomedian_helper", "analysis", 232) >>
    ELSE << S("lookup_mosaic", "", 241),
            S("composite", "baseline", 242), S("composite", "analysis", 245) >>

\* vegetation_change.py:164-338
ProgVegetationChange(m) == <<
    S("resolve", "baseline", 175), S("resolve", "analysis", 180),
    S("load", "baseline", 187), S("load", "analysis", 195),
    S("check_empty", "baseline", 203), S("check_empty", "analysis", 209),
    S("mask_good_quality", "baseline", 215), S("mask_good_quality", "analysis", 216),
    S("keep_good_only", "baseline", 221), S("keep_good_only", "analysis", 224) >>
    \o CompositeBranch(m) \o <<
    S("load_water", "water_baseline", 249), S("where", "water_baseline", 255),
    S("load_water", "water_analysis", 256), S("where", "water_analysis", 262),
    S("rename", "baseline", 264), S("rename", "analysis", 267),
    S("createparametercomposite", "baseline", 273),
    S("createparametercomposite", "analysis", 276),
    S("mean", "water_baseline", 283), S("mean", "water_analysis", 286),
    S("water_mask", "baseline", 291), S("water_mask", "analysis", 294),
    S("anomaly", "", 298), S("compute", "", 302), S("threshold", "", 306),
    S("write", "veg_change", 318), S("write", "param_thres", 328), S("return", "", 338) >>

\* water_change.py:100-209
ProgWaterChange == <<
    S("resolve", "baseline", 111), S("resolve", "analysis", 116),
    S("load", "baseline", 123), S("load", "analysis", 131),
    S("check_empty", "baseline", 139), S("check_empty", "analysis", 145),
    S("where", "baseline", 151), S("where", "analysis", 152),
    S("mean", "baseline", 154), S("mean", "analysis", 155),
    S("requantize", "baseline", 159), S("requantize", "analysis", 167),
    S("difference", "", 176), S("compute", "", 181),
    S("write", "difference_range", 190), S("write", "difference", 200),
    S("return", "", 209) >>

\* water_permanency.py:66-115
ProgWaterPermanency == <<
    S("resolve", "baseline", 73), S("load", "baseline", 81),
    S("check_empty", "baseline", 90), S("where", "baseline", 96),
    S("mean", "baseline", 97), S("compute", "", 101),
    S("write", "water", 106), S("return", "", 115) >>

\* water_quality.py:85-180
ProgWaterQuality == <<
    S("resolve", "baseline", 92), S("load", "baseline", 100),
    S("check_empty", "baseline", 108), S("require_landsat", "baseline", 114),
    S("load_water", "water_baseline", 115), S("where", "water_baseline", 125),
    S("mask_good_quality", "baseline", 127), S("where", "baseline", 128),
    S("where", "baseline", 129), S("index", "baseline", 130),
    S("mean", "baseline", 132), S("max", "baseline", 133), S("min", "baseline", 134),
    S("compute", "", 138), S("write", "mean_tsm", 146), S("write", "min_tsm", 158),
    S("write", "max_tsm", 170), S("return", "", 180) >>

Program(t, m) ==
    CASE t = "AggregateIndices" -> ProgAggregateIndices
      [] t = "AnnualDataProducts" -> ProgAnnualDataProducts
      [] t = "ArchiveAccess" -> ProgArchiveAccess
      [] t = "FractionalCover" -> ProgFractionalCover
      [] t = "LandChange" -> ProgLandChange
      [] t = "NDVIAnomaly" -> ProgNDVIAnomaly
      [] t = "VegetationChange" -> ProgVegetationChange(m)
      [] t = "WaterChange" -> ProgWaterChange
      [] t = "WaterPermanency" -> ProgWaterPermanency
      [] t = "WaterQuality" -> ProgWaterQuality

\* utils.py:72-75, land_change.py:206-209
scale == Frac(1, 10000)

offset == Num(0)

\* the source line of the xr_geomedian call a statement leads to: the call
\* itself in LandChange, the one inside the geomedian helper otherwise
SolverSite(s) == IF s.op = "xr_geomedian" THEN s.line ELSE 78

\* a variant in which the analysis call of LandChange lets the solver run
\* four threads of its own
xr_geomedian_kwargs_threads(line) ==
    IF line = 224
    THEN [num_threads |-> 4, eps |-> Mul(Frac(2, 10), scale), nocheck |-> TRUE]
    ELSE [num_threads |-> 1, eps |-> Mul(Frac(2, 10), scale), nocheck |-> TRUE]

\* utils.py:78-83, land_change.py:212-217, land_change.py:224-229: the
\* keyword arguments of the three xr_geomedian calls
xr_geomedian_kwargs(line) ==
    CASE line = 78 -> [num_threads |-> 1, eps |-> Mul(Frac(2, 10), scale), nocheck |-> TRUE]
      [] line = 212 -> [num_threads |-> 1, eps |-> Mul(Frac(2, 10), scale), nocheck |-> TRUE]
      [] line = 224 -> [num_threads |-> 1, eps |-> Mul(Frac(2, 10), scale), nocheck |-> TRUE]

\* land_change.py:280-333: what each write of LandChange hands to the
\* writer: the file, the variable of parameter_anomaly_output it holds, the
\* name given to DataArray.to_dataset and the bands requested
LandChangeWrites ==
    (292 :> [file |-> "land_change", data |-> "all", name |-> "land_change",
             bands |-> <<"land_change">>]) @@
    (304 :> [file |-> "bs_change", data |-> "bs", name |-> "bs_change",
             bands |-> <<"bs_change">>]) @@
    (316 :> [file |-> "pv_change", data |-> "pv", name |-> "bs_change",
             bands |-> <<"pv_change">>]) @@
    (328 :> [file |-> "npv_change", data |-> "npv", name |-> "npv_change",
             bands |-> <<"npv_change">>])

\* in the other tasks the bands requested are the variable of the dataset
\* written, or bands is omitted
WriteCall(t, s) ==
    IF t = "LandChange"
    THEN LandChangeWrites[s.line]
    ELSE [file |-> s.arg, data |-> "all", name |-> s.arg, bands |-> <<s.arg>>]

\* the writer is asked for a band the dataset does not hold
BandMissing(t, s) == \E i \in DOMAIN WriteCall(t, s).bands :
                        WriteCall(t, s).bands[i] # WriteCall(t, s).name

RECURSIVE FilesOf(_, _)
\* result: the file names appended after each write, in order
FilesOf(t, l) ==
    IF l = <<>> THEN <<>>
    ELSE IF Head(l).op = "write"
         THEN <<WriteCall(t, Head(l)).file>> \o FilesOf(t, Tail(l))
         ELSE FilesOf(t, Tail(l))

NotPassed == ""

Running == pc = "running" /\ stmt \in DOMAIN Program(task, mosaic_type)

Cur == Program(task, mosaic_type)[stmt]

pixelVars == <<waterVars, anomalyVars, thresVars, compVars>>

\* the statement completes and control moves to the next one
Advance ==
    /\ stmt' = stmt + 1
    /\ log' = Append(log, Cur)
    /\ UNCHANGED <<pc, error>>

\* the statement raises: generate_product has no try/except, the exception
\* leaves the task
Raise(e) ==
    /\ error' = e
    /\ pc' = "raised"
    /\ UNCHANGED <<stmt, log>>

InitFlow ==
    /\ task \in Tasks
    /\ pc = "called"
    /\ stmt = 0
    /\ log = <<>>
    /\ error = "none"
    /\ platform \in [PlatformArgs(task) -> PlatformIds]
    /\ mosaic_type \in (IF task \in MosaicTasks THEN MosaicTypes ELSE {NotPassed})
    /\ indices \in (IF task \in IndexTasks THEN IndexNames ELSE {NotPassed})
    /\ product = <<>>
    /\ cube = <<>>
    /\ water_scenes = Unset
    /\ UnsetWater
    /\ UnsetQuality
    /\ UnsetAnomaly
    /\ UnsetThres
    /\ UnsetComposite
    /\ year = 0

\* the names of the Parameter entries each task declares
DateRange == {"start_date", "end_date"}

PeriodDateRanges == {"baseline_start_date", "baseline_end_date", "analysis_start_date",
                     "analysis_end_date"}

PeriodPlatforms == {"platform_base", "platform_analysis"}

Area == {"aoi", "output_projection", "res", "aoi_crs"}

\* aggregate_indices.py:37-77, annual_data_products.py:25-57,
\* archive_access.py:17-42, fractional_cover.py:64-89, land_change.py:51-105,
\* ndvi_anomaly.py:37-98, vegetation_change.py:57-139, water_change.py:24-79,
\* water_permanency.py:22-48, water_quality.py:41-66
declared_parameters(t) ==
    CASE t = "AggregateIndices" -> Area \cup DateRange \cup {"platform", "mosaic_type", "indices"}
      [] t = "AnnualDataProducts" -> Area \cup {"year", "platform", "product"}
      [] t = "ArchiveAccess" -> Area \cup {"year", "platform"}
      [] t = "FractionalCover" -> Area \cup DateRange \cup {"platform"}
      [] t = "LandChange" -> Area \cup PeriodDateRanges \cup PeriodPlatforms
      [] t = "NDVIAnomaly" -> {"aoi", "projection", "res", "crs", "mosaic_type"}
                                 \cup PeriodDateRanges \cup PeriodPlatforms
      [] t = "VegetationChange" -> Area \cup PeriodDateRanges \cup PeriodPlatforms
                                      \cup {"mosaic_type", "indices", "minC", "maxC"}
      [] t = "WaterChange" -> Area \cup PeriodDateRanges \cup PeriodPlatforms
      [] t = "WaterPermanency" -> Area \cup DateRange \cup {"platform"}
      [] t = "WaterQuality" -> Area \cup DateRange \cup {"platform"}

\* the positional arguments of generate_product after self, dc, path_prefix
\* (aggregate_indices.py:81-95, annual_data_products.py:61-73,
\* archive_access.py:46-56, fractional_cover.py:93-105, land_change.py:109-124,
\* ndvi_anomaly.py:102-118, vegetation_change.py:143-162,
\* water_change.py:83-98, water_permanency.py:52-64, water_quality.py:70-83)
required_arguments(t) ==
    CASE t = "AggregateIndices" -> Area \cup DateRange \cup {"platform", "mosaic_type", "indices"}
      [] t = "AnnualDataProducts" -> Area \cup {"year", "platform", "product"}
      [] t = "ArchiveAccess" -> Area \cup {"year"}
      [] t = "FractionalCover" -> Area \cup DateRange \cup {"platform"}
      [] t = "LandChange" -> Area \cup PeriodDateRanges \cup PeriodPlatforms
      [] t = "NDVIAnomaly" -> {"aoi", "projection", "res", "crs", "mosaic_type"}
                                 \cup PeriodDateRanges \cup PeriodPlatforms
      [] t = "VegetationChange" -> Area \cup PeriodDateRanges \cup PeriodPlatforms
                                      \cup {"mosaic_type", "indices", "minC", "maxC"}
      [] t = "WaterChange" -> Area \cup PeriodDateRanges \cup PeriodPlatforms
      [] t = "WaterPermanency" -> Area \cup DateRange \cup {"platform"}
      [] t = "WaterQuality" -> Area \cup DateRange \cup {"platform", "platform_analysis"}

\* keyword arguments a caller can supply: the declared parameters alone, or
\* the declared parameters and every argument generate_product names
SuppliedKeywords(t) ==
    {declared_parameters(t), declared_parameters(t) \cup required_arguments(t)}

\* the call generate_product(dc, path_prefix, **keywords): a required
\* argument without a keyword is a TypeError raised before the first statement
Bind ==
    /\ pc = "called"
    /\ \E keywords \in SuppliedKeywords(task) :
          IF required_arguments(task) \subseteq keywords
          THEN pc' = "running" /\ stmt' = 1 /\ UNCHANGED <<log, error>>
          ELSE Raise("TypeError")
    /\ UNCHANGED <<task, year, qualityVars, pixelVars, platform, mosaic_type, indices, product, cube>>

Resolve ==
    /\ Running
    /\ Cur.op = "resolve"
    /\ LET r == create_product_measurement(platform[Cur.arg])
       IN  IF r.raised
           THEN Raise("invalid platform_name") /\ UNCHANGED product
           ELSE product' = (Cur.arg :> r) @@ product /\ Advance
    /\ UNCHANGED <<task, year, qualityVars, pixelVars, platform, mosaic_type, indices, cube>>

MapSatellite ==
    /\ Running
    /\ Cur.op = "map_satellite"
    /\ LET r == map_satellite(platform[Cur.arg])
       IN  IF r.raised
           THEN Raise("KeyError") /\ UNCHANGED product
           ELSE product' = (Cur.arg :> r) @@ product /\ Advance
    /\ UNCHANGED <<task, year, qualityVars, pixelVars, platform, mosaic_type, indices, cube>>

\* dc.load of the cube the task checks for emptiness; the data store decides
\* what comes back
Load ==
    /\ Running
    /\ Cur.op = "load"
    /\ \E ds \in CubeKinds : cube' = (Cur.arg :> ds) @@ cube
    /\ Advance
    /\ UNCHANGED <<task, year, qualityVars, pixelVars, platform, mosaic_type, indices, product>>

\* dc.load of the auxiliary water classification cube
LoadWater ==
    /\ Running
    /\ Cur.op = "load_water"
    /\ cube' = (Cur.arg :> DataCube) @@ cube
    /\ Advance
    /\ UNCHANGED <<task, year, qualityVars, pixelVars, platform, mosaic_type, indices, product>>

CheckEmpty ==
    /\ Running
    /\ Cur.op = "check_empty"
    /\ IF is_dataset_empty(cube[Cur.arg])
       THEN Raise("DataCube Load returned an empty Dataset.")
       ELSE Advance
    /\ UNCHANGED <<task, year, qualityVars, pixelVars, platform, mosaic_type, indices, product, cube>>

RequireLandsat ==
    /\ Running
    /\ Cur.op = "require_landsat"
    /\ IF IsDaskableLandsat(platform[Cur.arg])
       THEN Advance
       ELSE Raise("S2 does not yet have daskable water classification")
    /\ UNCHANGED <<task, year, qualityVars, pixelVars, platform, mosaic_type, indices, product, cube>>

LookupMosaic ==
    /\ Running
    /\ Cur.op = "lookup_mosaic"
    /\ IF LookupRaises(mosaic_function(task), mosaic_type)
       THEN Raise("KeyError")
       ELSE Advance
    /\ UNCHANGED <<task, year, qualityVars, pixelVars, platform, mosaic_type, indices, product, cube>>

LookupIndex ==
    /\ Running
    /\ Cur.op = "lookup_index"
    /\ IF LookupRaises(indices_function(task), indices)
       THEN Raise("KeyError")
       ELSE Advance
    /\ UNCHANGED <<task, year, qualityVars, pixelVars, platform, mosaic_type, indices, product, cube>>

\* vegetation_change.py:25-37: no branch taken leaves parameter_composite unbound
CreateParameterComposite ==
    /\ Running
    /\ Cur.op = "createparametercomposite"
    /\ IF LookupRaises(indices_function(task), indices)
       THEN Raise("UnboundLocalError")
       ELSE Advance
    /\ UNCHANGED <<task, year, qualityVars, pixelVars, platform, mosaic_type, indices, product, cube>>

\* the dataset handed to geomedian still holds the QA band in FractionalCover
\* (fractional_cover.py:149) and not in VegetationChange (vegetation_change.py:218-234)
GeomedianInputHasQA(t) == t = "FractionalCover"

\* utils.py:66-88.  The QA decoder is an external library; on a dataset
\* without the QA band it may raise or not.
GeomedianHelper ==
    /\ Running
    /\ Cur.op = "geomedian_helper"
    /\ \/ Advance
       \/ ~GeomedianInputHasQA(task) /\ Raise("QA band missing")
    /\ UNCHANGED <<task, year, qualityVars, pixelVars, platform, mosaic_type, indices, product, cube>>

\* Dataset.rename raises when the dataset has no x / y
Rename ==
    /\ Running
    /\ Cur.op = "rename"
    /\ IF cube[Cur.arg].dims = 0
       THEN Raise("ValueError")
       ELSE Advance
    /\ UNCHANGED <<task, year, qualityVars, pixelVars, platform, mosaic_type, indices, product, cube>>

\* statements that only extend the deferred graph
GraphOps == {"mask_good_quality", "keep_good_only", "where", "composite", "xr_geomedian",
             "mean", "max", "min", "index", "water_mask", "anomaly", "requantize",
             "difference", "threshold"}

GraphStep ==
    /\ Running
    /\ Cur.op \in GraphOps
    /\ Advance
    /\ UNCHANGED <<task, year, qualityVars, pixelVars, platform, mosaic_type, indices, product, cube>>

\* a variant in which generate_product catches the failure of compute and
\* carries on with the writes
Compute_caught ==
    /\ Running
    /\ Cur.op = "compute"
    /\ \/ Advance
       \/ /\ error' = "compute failed"
          /\ stmt' = stmt + 1
          /\ log' = Append(log, Cur)
          /\ UNCHANGED pc
    /\ UNCHANGED <<task, year, qualityVars, pixelVars, platform, mosaic_type, indices, product, cube>>

\* the blocking .compute() / dask.compute(): it returns the arrays, or an
\* exception of a graph node comes out of it; no try/except surrounds the call
Compute ==
    /\ Running
    /\ Cur.op = "compute"
    /\ \/ Advance
       \/ Raise("compute failed")
    /\ UNCHANGED <<task, year, qualityVars, pixelVars, platform, mosaic_type, indices, product, cube>>

\* export_xarray_to_geotiff; selecting a band the dataset does not hold is
\* a KeyError inside the writer
Write ==
    /\ Running
    /\ Cur.op = "write"
    /\ \/ Advance
       \/ BandMissing(task, Cur) /\ Raise("KeyError")
    /\ UNCHANGED <<task, year, qualityVars, pixelVars, platform, mosaic_type, indices, product, cube>>

Return ==
    /\ Running
    /\ Cur.op = "return"
    /\ pc' = "returned"
    /\ log' = Append(log, Cur)
    /\ UNCHANGED <<task, year, qualityVars, pixelVars, platform, mosaic_type, indices, product, cube, stmt, error>>

Next ==
    \/ Bind
    \/ Resolve
    \/ MapSatellite
    \/ Load
    \/ LoadWater
    \/ CheckEmpty
    \/ RequireLandsat
    \/ LookupMosaic
    \/ LookupIndex
    \/ CreateParameterComposite
    \/ GeomedianHelper
    \/ Rename
    \/ GraphStep
    \/ Compute
    \/ Write
    \/ Return

Spec == InitFlow /\ [][Next]_vars

----------------------------------------------------------------------------
(* Compositing and index calculation of VegetationChange on one pixel.     *)
(*                                                                         *)
(* A band vector is a record [red, nir, blue].  The loaded bands are int16 *)
(* integers; composites and indices hold rationals or NaN.                 *)

Bands == {"red", "nir", "blue"}

\* the nodata attribute of the loaded surface reflectance bands
nodata == NoDataValue

\* odc.algo.keep_good_only on an integer band: the value where the mask
\* holds, the band's nodata elsewhere (vegetation_change.py:221-226,
\* utils.py:70, land_change.py:203-204)
keep_good_only(x, where) ==
    [i \in DOMAIN x |-> [k \in Bands |-> IF where[i] THEN x[i][k] ELSE nodata]]

(* float32 numbers are pairs <<m, e>> standing for m * 2^e, 0 <= m < 2^24, *)
(* or NaN.                                                                 *)
RECURSIVE BitLen(_)
BitLen(n) == IF n = 0 THEN 0 ELSE 1 + BitLen(n \div 2)

\* q + r / 2^s rounded to the nearest integer, ties to even
RoundHalfEven(q, r, s) ==
    IF s > 0 /\ (2 * r > 2^s \/ (2 * r = 2^s /\ q % 2 = 1)) THEN q + 1 ELSE q

\* the float32 nearest to n * 2^e, for 0 <= n < 2^31
F32(n, e) ==
    LET s == IF BitLen(n) > 24 THEN BitLen(n) - 24 ELSE 0
        m == RoundHalfEven(n \div 2^s, n % 2^s, s)
    IN  IF m = 2^24 THEN <<2^23, e + s + 1>> ELSE <<m, e + s>>

\* the float32 nearest to (hi * 2^12 + lo) * 2^e, for 0 <= lo < 2^12 and
\* 0 <= hi < 2^24
F32Wide(hi, lo, e) ==
    LET s == BitLen(hi) - 12
    IN  IF s <= 0 THEN F32(hi * 2^12 + lo, e)
        ELSE LET m == RoundHalfEven(hi * 2^(12 - s) + lo \div 2^s, lo % 2^s, s)
             IN  IF m = 2^24 THEN <<2^23, e + s + 1>> ELSE <<m, e + s>>

\* np.float32(scale) for scale = 1 / 10_000: 13743895 * 2^-37
scale_f32 == <<13743895, -37>>

\* np.float32(1 / scale) = 10000 = 625 * 2^4
inv_scale_f32 == <<625, 4>>

\* odc.algo.to_f32(x, scale, offset) on one int16 value: nodata becomes NaN,
\* any other value x * scale + offset in float32 (utils.py:77,
\* land_change.py:211,223); offset is 0.  The band values of the model stay
\* in 0 .. 156, so that the product stays below 2^31.
to_f32(x) ==
    IF x = nodata THEN NaN ELSE F32(x * scale_f32[1], scale_f32[2])

\* float32 product y * (1 / scale)
MulInvScale(y) ==
    LET hi == (y[1] \div 2^12) * inv_scale_f32[1]
        lo == (y[1] % 2^12) * inv_scale_f32[1]
    IN  F32Wide(hi + lo \div 2^12, lo % 2^12, y[2] + inv_scale_f32[2])

\* conversion of a non-negative float32 to int16: the fraction is dropped
TruncInt(y) ==
    IF y[1] = 0 \/ y[2] < -30 THEN 0
    ELSE IF y[2] >= 0 THEN y[1] * 2^y[2]
    ELSE y[1] \div 2^(-y[2])

\* the time steps a solver or reducer works on
RECURSIVE Steps(_, _)
Steps(keep, i) ==
    IF i > Len(keep) THEN <<>>
    ELSE (IF keep[i] THEN <<i>> ELSE <<>>) \o Steps(keep, i + 1)

\* odc.algo.xr_geomedian on the pixel (utils.py:78-83, land_change.py:212-229):
\* time steps with a NaN band are left out; no step left gives NaN in every
\* band, one step left gives that step's vector, and with more steps the
\* solver returns a point of their bounding box, of which the model takes
\* those whose coordinates are coordinates of the samples
xr_geomedian(xx) ==
    LET valid == Steps([i \in DOMAIN xx |-> \A k \in Bands : ~IsNaN(xx[i][k])], 1)
    IN  IF valid = <<>> THEN {[k \in Bands |-> NaN]}
        ELSE IF Len(valid) = 1 THEN {xx[valid[1]]}
        ELSE {[k \in Bands |-> xx[pick[k]][k]] :
                 pick \in [Bands -> {valid[j] : j \in DOMAIN valid}]}

\* a from_float that writes 0 where the solver gave NaN
from_float_zero(y) ==
    IF IsNaN(y) THEN 0 ELSE TruncInt(MulInvScale(y))

\* odc.algo.from_float(y, dtype="int16", nodata=-9999, scale=1/scale,
\* offset=-offset/scale) on one float32 value (utils.py:85-87,
\* land_change.py:219-221,231-233): NaN becomes nodata, any other value
\* y * scale + offset converted to int16
from_float(y) ==
    IF IsNaN(y) THEN nodata ELSE TruncInt(MulInvScale(y))

\* utils.py:66-88: the composites the geomedian helper can return for the
\* time series x with quality mask good_quality
geomedian(x, good_quality) ==
    LET xx_clean == keep_good_only(x, good_quality)
        xx_f32 == [i \in DOMAIN xx_clean |-> [k \in Bands |-> to_f32(xx_clean[i][k])]]
    IN  {[k \in Bands |-> Num(from_float(yy[k]))] : yy \in xr_geomedian(xx_f32)}

\* one band of the time series as numbers, NaN at the steps the reducer
\* leaves out: Dataset.where(clean_mask) inside the mosaic functions
BandSeries(x, mask, k) == [i \in DOMAIN x |-> Where(Num(x[i][k]), mask[i], NaN)]

RECURSIVE Insert(_, _)
Insert(v, s) ==
    IF s = <<>> THEN <<v>>
    ELSE IF Le(v, Head(s)) THEN <<v>> \o s
    ELSE <<Head(s)>> \o Insert(v, Tail(s))

RECURSIVE SortNumbers(_)
\* the non-NaN entries of s in ascending order
SortNumbers(s) ==
    IF s = <<>> THEN <<>>
    ELSE IF IsNaN(Head(s)) THEN SortNumbers(Tail(s))
    ELSE Insert(Head(s), SortNumbers(Tail(s)))

\* median over time that skips NaN; all-NaN gives NaN
MedianTime(s) ==
    LET t == SortNumbers(s)
        n == Len(t)
    IN  IF n = 0 THEN NaN
        ELSE IF n % 2 = 1 THEN t[(n + 1) \div 2]
        ELSE Mul(Add(t[n \div 2], t[n \div 2 + 1]), Frac(1, 2))

\* median reducer: per band, the median of the unmasked samples
create_median_mosaic(x, mask) == [k \in Bands |-> MedianTime(BandSeries(x, mask, k))]

\* mean reducer: per band, the mean of the unmasked samples
create_mean_mosaic(x, mask) == [k \in Bands |-> MeanTime(BandSeries(x, mask, k))]

\* NDVI = (nir - red) / (nir + red)
NDVI(v) == Div(Sub(v.nir, v.red), Add(v.nir, v.red))

\* EVI = 2.5 * (nir - red) / (nir + 6 * red - 7.5 * blue + 1)
EVI(v) ==
    Div(Mul(Frac(25, 10), Sub(v.nir, v.red)),
        Add(Sub(Add(v.nir, Mul(Num(6), v.red)), Mul(Frac(75, 10), v.blue)), Num(1)))

RECURSIVE ArgMaxNDVI(_, _, _)
\* the first of the steps s, after the current best, whose NDVI is largest
ArgMaxNDVI(x, s, best) ==
    IF s = <<>> THEN best
    ELSE IF Gt(NDVI([k \in Bands |-> Num(x[Head(s)][k])]),
               NDVI([k \in Bands |-> Num(x[best][k])]))
         THEN ArgMaxNDVI(x, Tail(s), Head(s))
         ELSE ArgMaxNDVI(x, Tail(s), best)

\* max-index reducer: the band vector of the unmasked time step with the
\* largest NDVI, the earliest one on a tie; nodata without unmasked step
create_max_ndvi_mosaic(x, mask) ==
    LET s == Steps(mask, 1)
    IN  IF s = <<>> THEN [k \in Bands |-> NaN]
        ELSE [k \in Bands |-> Num(x[ArgMaxNDVI(x, Tail(s), Head(s))][k])]

\* vegetation_change.py:236-247: new_compositor(ds_masked, clean_mask=...,
\* no_data=np.nan) for the three names of the table
new_compositor(m, x, mask) ==
    CASE m = "median" -> create_median_mosaic(x, mask)
      [] m = "max" -> create_max_ndvi_mosaic(x, mask)
      [] m = "mean" -> create_mean_mosaic(x, mask)

\* values the photosynthetic-vegetation band of the classifier can take
PvValues == {Num(0), Num(40)}

\* frac_coverage_classify(ds, no_data=np.nan).pv: nodata where the input
\* is nodata, a percentage elsewhere
frac_coverage_classify_pv(v) ==
    IF \E k \in Bands : IsNaN(v[k]) THEN {NaN} ELSE PvValues

\* a variant whose EVI branch calls NDVI
createparametercomposite_ndvi(i, v) ==
    CASE i = "NDVI" -> {NDVI(v)}
      [] i = "EVI" -> {NDVI(v)}
      [] i = "FC" -> {Where(pv, ~IsNaN(v.red), NaN) : pv \in frac_coverage_classify_pv(v)}

\* vegetation_change.py:25-37: the index values createparametercomposite
\* can return for the composite v
createparametercomposite(i, v) ==
    CASE i = "NDVI" -> {NDVI(v)}
      [] i = "EVI" -> {EVI(v)}
      [] i = "FC" -> {Where(pv, ~IsNaN(v.red), NaN) : pv \in frac_coverage_classify_pv(v)}

\* band vectors [red, nir, blue] of the model
Vec(r, n, bl) == [red |-> r, nir |-> n, blue |-> bl]

\* clear observations, and one observation the quality mask rejects
ClearSamples == {Vec(0, 0, 0), Vec(2, 2, 2), Vec(0, 14, 2), Vec(3, 5, 1)}

CloudSample == Vec(9, 9, 9)

Scenes == {[bands |-> v, good |-> TRUE] : v \in ClearSamples}
              \cup {[bands |-> CloudSample, good |-> FALSE]}

MaxTimeSteps == 2

\* time series of one to n scenes
SceneSeries(n) == UNION {[1..len -> Scenes] : len \in 1..n}

\* reducers and indices VegetationChange declares (vegetation_change.py:116,123)
VegetationChangeReducers == {"max", "median", "mean", "geomedian"}

VegetationChangeIndices == {"EVI", "NDVI", "FC"}

InitComposite ==
    /\ task = "VegetationChange"
    /\ pc = "ds_loaded"
    /\ \E base \in SceneSeries(MaxTimeSteps), ana \in SceneSeries(1) :
          LET sc == [p \in Periods |-> IF p = "baseline" THEN base ELSE ana]
          IN  /\ xx_data = [p \in Periods |-> [i \in DOMAIN sc[p] |-> sc[p][i].bands]]
              /\ clean_mask = [p \in Periods |-> [i \in DOMAIN sc[p] |-> sc[p][i].good]]
    /\ ds_masked = Unset
    /\ composite = Unset
    /\ mosaic_type \in VegetationChangeReducers
    /\ indices \in VegetationChangeIndices
    /\ water_scenes = [p \in Periods |-> SeriesOf(0, 0, 1)]
    /\ UnsetWater
    /\ UnsetQuality
    /\ UnsetAnomaly
    /\ UnsetThres
    /\ platform = Unset
    /\ product = Unset
    /\ cube = Unset
    /\ stmt = 0
    /\ log = <<>>
    /\ error = "none"
    /\ year = 0

\* vegetation_change.py:218-226
KeepGoodOnly ==
    /\ pc = "ds_loaded"
    /\ ds_masked' = [p \in Periods |-> keep_good_only(xx_data[p], clean_mask[p])]
    /\ pc' = "ds_masked"
    /\ UNCHANGED <<task, year, qualityVars, waterVars, anomalyVars, thresVars, flowVars, xx_data, clean_mask,
                   composite>>

\* vegetation_change.py:228-234: the helper decodes the quality mask of the
\* period again
GeomedianComposite ==
    /\ pc = "ds_masked"
    /\ mosaic_type = "geomedian"
    /\ \E y \in [Periods -> UNION {geomedian(ds_masked[p], clean_mask[p]) : p \in Periods}] :
          /\ \A p \in Periods : y[p] \in geomedian(ds_masked[p], clean_mask[p])
          /\ composite' = y
    /\ pc' = "composite"
    /\ UNCHANGED <<task, year, qualityVars, waterVars, anomalyVars, thresVars, flowVars, xx_data, clean_mask,
                   ds_masked>>

\* vegetation_change.py:236-247
MosaicComposite ==
    /\ pc = "ds_masked"
    /\ mosaic_type # "geomedian"
    /\ composite' = [p \in Periods |-> new_compositor(mosaic_type, ds_masked[p], clean_mask[p])]
    /\ pc' = "composite"
    /\ UNCHANGED <<task, year, qualityVars, waterVars, anomalyVars, thresVars, flowVars, xx_data, clean_mask,
                   ds_masked>>

\* vegetation_change.py:273-278
ParameterComposite ==
    /\ pc = "composite"
    /\ \E v \in [Periods -> UNION {createparametercomposite(indices, composite[p]) : p \in Periods}] :
          /\ \A p \in Periods : v[p] \in createparametercomposite(indices, composite[p])
          /\ parameter_composite' = v
    /\ pc' = "loaded"
    /\ UNCHANGED <<task, year, qualityVars, waterVars, vegetation, parameter_anomaly, thresVars, flowVars, compVars>>

NextComposite ==
    \/ KeepGoodOnly
    \/ GeomedianComposite
    \/ MosaicComposite
    \/ ParameterComposite
    \/ VegetationChangeMean
    \/ VegetationChangeMask
    \/ ComputeAnomaly

SpecComposite == InitComposite /\ [][NextComposite]_vars

----------------------------------------------------------------------------
(* C1: for minC < maxC, a value >= maxC is coded 200, a value <= minC is   *)
(* coded 300, a value strictly between is coded 100 and nodata stays       *)
(* nodata, once the three replacements have been applied.                  *)
C1_ThresholdClassification ==
    (pc = "param_thres" /\ Lt(minC, maxC)) =>
        /\ Ge(parameter_anomaly, maxC) => d = IncreaseCode
        /\ Le(parameter_anomaly, minC) => d = DecreaseCode
        /\ (Gt(parameter_anomaly, minC) /\ Lt(parameter_anomaly, maxC)) => d = NoChangeCode
        /\ IsNaN(parameter_anomaly) => IsNaN(d)

C1_Witness ==
    /\ pc = "param_thres"
    /\ Lt(minC, maxC)
    /\ parameter_anomaly = maxC
    /\ d = IncreaseCode

(* C2: the threshold product is nodata exactly where the anomaly is nodata *)
C2_NodataFootprint ==
    pc = "param_thres" => (IsNaN(d) <=> IsNaN(parameter_anomaly))

C2_Witness ==
    /\ pc = "param_thres"
    /\ IsNaN(parameter_anomaly)
    /\ IsNaN(d)

(* C6: water occurrence is the mean of the classification over the valid   *)
(* time steps only: nodata when no time step is valid, else the fraction   *)
(* of valid steps classified as water, which lies in [0,1].                *)
ValidSteps(s) == {i \in DOMAIN s : s[i] # NoDataValue}
WaterSteps(s) == {i \in DOMAIN s : s[i] = 1}

C6_WaterOccurrence ==
    pc # "loaded" =>
        \A p \in DOMAIN water_scenes :
            LET s == water_scenes[p]
                occ == water_composite[p]
            IN  /\ (ValidSteps(s) = {}) <=> IsNaN(occ)
                /\ ValidSteps(s) # {} =>
                    /\ occ = Frac(Cardinality(WaterSteps(s)), Cardinality(ValidSteps(s)))
                    /\ Ge(occ, Num(0))
                    /\ Le(occ, Num(1))

C6_Witness ==
    /\ pc = "water_composite"
    /\ task = "VegetationChange"
    /\ ValidSteps(water_scenes["baseline"]) = {}
    /\ IsNaN(water_composite["baseline"])
    /\ water_scenes["analysis"] = SeriesOf(1, 1, 1)
    /\ water_composite["analysis"] = Frac(1, 2)

(* C7: the WaterChange class is 1 iff occurrence >= 0.3, 0 iff occurrence  *)
(* < 0.3, nodata iff the occurrence is nodata, and a pixel set to 1 by the *)
(* first replacement is still 1 after the second.                          *)
C7_Requantize ==
    pc = "requantized" =>
        \A p \in Periods :
            /\ (wc_rc[p] = Num(1)) <=> Ge(water_composite[p], waterpres_prob)
            /\ (wc_rc[p] = Num(0)) <=> Lt(water_composite[p], waterpres_prob)
            /\ IsNaN(wc_rc[p]) <=> IsNaN(water_composite[p])
            /\ (wc_rc_int[p] = Num(1)) => (wc_rc[p] = Num(1))

C7_Witness ==
    /\ pc = "requantized"
    /\ water_composite["baseline"] = waterpres_prob
    /\ wc_rc["baseline"] = Num(1)
    /\ IsNaN(wc_rc["analysis"])

(* C3: in VegetationChange, LandChange and NDVIAnomaly the anomaly is      *)
(* analysis minus baseline exactly where both index values are non-nodata  *)
(* and both periods' water occurrence is <= 0.4, and nodata elsewhere.     *)
IsNoData(x) == IsNaN(x) \/ x = Sentinel

AnomalyValid ==
    \A p \in Periods :
        /\ ~IsNoData(parameter_composite[p])
        /\ Le(water_composite[p], water_threshold)

C3_AnomalyDefinition ==
    pc = "anomaly" =>
        IF AnomalyValid
        THEN parameter_anomaly = Sub(parameter_composite["analysis"], parameter_composite["baseline"])
        ELSE IsNaN(parameter_anomaly)

(* C4: a pixel whose water occurrence exceeds 0.4 or is nodata in either   *)
(* period is nodata in the anomaly, whatever the index values.             *)
C4_WaterExcluded ==
    pc = "anomaly" =>
        ((\E p \in Periods : Gt(water_composite[p], water_threshold) \/ IsNaN(water_composite[p]))
            => IsNaN(parameter_anomaly))

C4_Witness ==
    /\ pc = "anomaly"
    /\ task = "VegetationChange"
    /\ IsNaN(water_composite["baseline"])
    /\ water_composite["analysis"] = Num(0)
    /\ \A p \in Periods : ~IsNoData(parameter_composite[p])
    /\ IsNaN(parameter_anomaly)

ProcessingOps == {"mask_good_quality", "keep_good_only", "where", "composite",
                  "xr_geomedian", "geomedian_helper", "mean", "max", "min"}

Processed(cn) == \E i \in DOMAIN log : log[i].op \in ProcessingOps /\ log[i].arg = cn

Logged(op) == \E i \in DOMAIN log : log[i].op = op

C8_EmptyCubeRejected ==
    \A cn \in DOMAIN cube \cap Periods :
        (cube[cn].dims = 0 \/ cube[cn].data_vars = 0) =>
            /\ ~Processed(cn)
            /\ ~Logged("write")
            /\ pc # "returned"

(* C9: a platform identifier outside SENTINEL_2, LANDSAT_4, LANDSAT_5,     *)
(* LANDSAT_7, LANDSAT_8 is never mapped to a product name, and no load,    *)
(* mask or composite step runs for it.                                     *)
C9_UnrecognizedPlatformRejected ==
    \A p \in DOMAIN platform :
        platform[p] \notin RecognizedPlatforms =>
            /\ p \notin DOMAIN product
            /\ ~Logged("load")
            /\ ~Logged("mask_good_quality")
            /\ ~Logged("composite")

(* C10: with a mosaic_type outside the task's reducer table or an index    *)
(* name outside its index table, AggregateIndices, NDVIAnomaly and         *)
(* VegetationChange never reach compute, never write and never return.     *)
UnknownReducer ==
    mosaic_type \notin
        (mosaic_function(task) \cup (IF task = "VegetationChange" THEN {"geomedian"} ELSE {}))

UnknownIndex == task \in IndexTasks /\ indices \notin indices_function(task)

C10_UnknownSelectorFailsFast ==
    (task \in MosaicTasks /\ (UnknownReducer \/ UnknownIndex)) =>
        /\ ~Logged("compute")
        /\ ~Logged("write")
        /\ pc # "returned"

C10_Witness ==
    /\ task = "VegetationChange"
    /\ pc = "raised"
    /\ error = "UnboundLocalError"
    /\ mosaic_type = "median"
    /\ indices = "bogus"
    /\ Logged("lookup_mosaic")
    /\ ~Logged("compute")

(* C11: an unknown reducer or index name is rejected before any dc.load    *)
(* call: when the selector lookup raises, no load has been issued.         *)
SelectorErrors == {"KeyError", "UnboundLocalError"}

LoadOps == {"load", "load_water"}

C11_SelectorRejectedBeforeLoad ==
    (task \in MosaicTasks /\ pc = "raised" /\ error \in SelectorErrors) =>
        \A i \in DOMAIN log : log[i].op \notin LoadOps

(* C12: a task that returns has made exactly one compute call, every       *)
(* pipeline stage precedes it and only writes (and the return) follow it.  *)
ComputeCalls == {i \in DOMAIN log : log[i].op = "compute"}

OutputOps == {"write", "return"}

C12_SingleMaterialize ==
    pc = "returned" =>
        /\ Cardinality(ComputeCalls) = 1
        /\ \A k \in ComputeCalls : \A i \in DOMAIN log :
              /\ i > k => log[i].op \in OutputOps
              /\ i < k => log[i].op # "write"

(* C13: when compute raises, the task ends with that exception: no file    *)
(* was written before it, none is written after it, nothing is returned.   *)
C13_ComputeFailurePropagates ==
    error = "compute failed" =>
        /\ pc = "raised"
        /\ ~Logged("write")
        /\ ~Logged("return")

C13_Witness ==
    /\ task = "LandChange"
    /\ pc = "raised"
    /\ error = "compute failed"
    /\ Logged("anomaly")
    /\ ~Logged("write")

(* C17: every xr_geomedian call, in the geomedian helper and in both       *)
(* periods of LandChange, runs with num_threads = 1 and eps = 0.2 * scale. *)
SolverOps == {"xr_geomedian", "geomedian_helper"}

C17_SolverSingleThreaded ==
    \A i \in DOMAIN log :
        log[i].op \in SolverOps =>
            /\ xr_geomedian_kwargs(SolverSite(log[i])).num_threads = 1
            /\ xr_geomedian_kwargs(SolverSite(log[i])).eps = Frac(2, 100000)

C17_Witness ==
    /\ task = "LandChange"
    /\ pc = "returned"
    /\ \E i, j \in DOMAIN log :
          /\ log[i].op = "xr_geomedian" /\ log[i].arg = "baseline"
          /\ log[j].op = "xr_geomedian" /\ log[j].arg = "analysis"

(* C19: a successful NDVIAnomaly run classifies the anomaly into a         *)
(* threshold product, writes two rasters and returns both file names.      *)
C19_NDVIAnomalyTwoOutputs ==
    (task = "NDVIAnomaly" /\ pc = "returned") =>
        /\ Logged("threshold")
        /\ Len(FilesOf(task, log)) = 2

(* C20: LandChange writes bs, pv and npv change rasters, each holding its  *)
(* own band; every write asks the writer for the variable the dataset      *)
(* holds; the files returned are land_change, bs_change, pv_change,        *)
(* npv_change in that order.                                               *)
C20_LandChangeOutputs ==
    task = "LandChange" =>
        /\ \A i \in DOMAIN log :
              log[i].op = "write" =>
                  /\ WriteCall(task, log[i]).bands = <<WriteCall(task, log[i]).name>>
                  /\ WriteCall(task, log[i]).file \in {"bs_change", "pv_change", "npv_change"}
                        => WriteCall(task, log[i]).file = WriteCall(task, log[i]).data \o "_change"
        /\ pc = "returned" =>
              FilesOf(task, log) = <<"land_change", "bs_change", "pv_change", "npv_change">>

(* C14: for every reducer, a pixel whose every time step is masked is      *)
(* nodata in every band of the composite (the int16 sentinel -9999 on the  *)
(* geomedian path, NaN otherwise), and a pixel with an unmasked time step  *)
(* is nodata in no band.                                                   *)
AllMasked(p) == \A i \in DOMAIN clean_mask[p] : ~clean_mask[p][i]

CompositeNoData(x) == IF mosaic_type = "geomedian" THEN x = Sentinel ELSE IsNaN(x)

C14_CompositeNodata ==
    pc = "composite" =>
        \A p \in Periods : \A k \in Bands :
            /\ AllMasked(p) => CompositeNoData(composite[p][k])
            /\ ~AllMasked(p) => ~IsNoData(composite[p][k])

C14_Witness ==
    /\ pc = "composite"
    /\ mosaic_type = "geomedian"
    /\ Len(clean_mask["baseline"]) = 2
    /\ AllMasked("baseline")
    /\ \A k \in Bands : composite["baseline"][k] = Sentinel
    /\ ~AllMasked("analysis")
    /\ \A k \in Bands : ~IsNoData(composite["analysis"][k])

(* C15: in VegetationChange a pixel that is nodata in a period's composite *)
(* (NaN or -9999 in every band) is nodata in that period's index raster    *)
(* and nodata in the anomaly.                                              *)
IndexComputed == pc \in {"loaded", "water_composite", "masked", "anomaly"}

NoDataComposite(p) == \A k \in Bands : IsNoData(composite[p][k])

C15_NodataReachesIndex ==
    (composite # Unset /\ IndexComputed) =>
        \A p \in Periods :
            NoDataComposite(p) =>
                /\ IsNoData(parameter_composite[p])
                /\ pc = "anomaly" => IsNaN(parameter_anomaly)

(* C16: with exactly one unmasked time step the geomedian composite is     *)
(* that time step's band vector, integer for integer.                      *)
C16_SingleSampleGeomedian ==
    (pc = "composite" /\ mosaic_type = "geomedian") =>
        \A p \in Periods :
            \A i \in DOMAIN clean_mask[p] :
                (clean_mask[p][i] /\ \A j \in DOMAIN clean_mask[p] : clean_mask[p][j] => j = i) =>
                    \A k \in Bands : composite[p][k] = Num(xx_data[p][i][k])

(* C18: an index whose denominator is zero or nodata is nodata at the      *)
(* pixel; NDVI of red = nir = c > 0 is 0 and NDVI of red = nir = 0 is      *)
(* nodata; EVI with nir + 6 red - 7.5 blue + 1 = 0 is nodata.              *)
NDVIDenominator(v) == Add(v.nir, v.red)

EVIDenominator(v) ==
    Add(Sub(Add(v.nir, Mul(Num(6), v.red)), Mul(Frac(75, 10), v.blue)), Num(1))

ZeroOrNoData(x) == IsNaN(x) \/ x = Num(0)

----------------------------------------------------------------------------
(* The keyword arguments of the dc.load calls that matter for the water    *)
(* mask: the time range handed over (or none) and whether **query is       *)
(* passed.  The calls are identified by task and source line.              *)
LoadKw(time, query) == [time |-> time, query |-> query]

\* ndvi_anomaly.py:161-199, land_change.py:147-190, vegetation_change.py:187-261,
\* fractional_cover.py:122-141, water_quality.py:100-120
dc_load_kwargs(t, line) ==
    CASE t = "NDVIAnomaly" /\ line = 161 -> LoadKw("baseline_time_period", TRUE)
      [] t = "NDVIAnomaly" /\ line = 169 -> LoadKw("analysis_time_period", TRUE)
      [] t = "NDVIAnomaly" /\ line = 190 -> LoadKw(NotPassed, TRUE)
      [] t = "NDVIAnomaly" /\ line = 195 -> LoadKw(NotPassed, TRUE)
      [] t = "LandChange" /\ line = 147 -> LoadKw("baseline_time_period", TRUE)
      [] t = "LandChange" /\ line = 155 -> LoadKw("analysis_time_period", TRUE)
      [] t = "LandChange" /\ line = 176 -> LoadKw("baseline_time_period", TRUE)
      [] t = "LandChange" /\ line = 185 -> LoadKw("analysis_time_period", TRUE)
      [] t = "VegetationChange" /\ line = 187 -> LoadKw("baseline_time_period", TRUE)
      [] t = "VegetationChange" /\ line = 195 -> LoadKw("analysis_time_period", TRUE)
      [] t = "VegetationChange" /\ line = 249 -> LoadKw("baseline_time_period", TRUE)
      [] t = "VegetationChange" /\ line = 256 -> LoadKw("analysis_time_period", TRUE)
      [] t = "FractionalCover" /\ line = 122 -> LoadKw("time", TRUE)
      [] t = "FractionalCover" /\ line = 136 -> LoadKw("time", TRUE)
      [] t = "WaterQuality" /\ line = 100 -> LoadKw("time", TRUE)
      [] t = "WaterQuality" /\ line = 115 -> LoadKw("time", TRUE)

\* the period whose water classification the cube named cn holds
PeriodOfWater(cn) == IF cn = "water_analysis" THEN "analysis" ELSE "baseline"

\* the dc.load statement of the imagery cube of period p, among those executed
ImageryLoads(p) == {i \in DOMAIN log : log[i].op = "load" /\ log[i].arg = p}

(* C21: each water-classification cube is requested with the time range    *)
(* and the spatial query of its period's imagery cube, and no water cube    *)
(* is requested without a time range.                                       *)
C21_WaterLoadSameWindow ==
    \A i \in DOMAIN log :
        log[i].op = "load_water" =>
            /\ dc_load_kwargs(task, log[i].line).time # NotPassed
            /\ \A j \in ImageryLoads(PeriodOfWater(log[i].arg)) :
                  dc_load_kwargs(task, log[i].line) = dc_load_kwargs(task, log[j].line)

----------------------------------------------------------------------------
(* The data variables of the dataset handed to the quality decoder *)
all_measurements == {"green", "red", "blue", "nir", "swir1", "swir2"}

\* utils.py:40,47: the measurements dc.load is asked for, given the
\* resolved product r
LoadedMeasurements(r) ==
    all_measurements \cup
        (IF r.qa = "scene_classification" THEN {"coastal_aerosol", r.qa} ELSE {r.qa})

\* statements that call mask_good_quality: directly, or as the first
\* statement of the geomedian helper (utils.py:67)
DecodeOps == {"mask_good_quality", "geomedian_helper"}

\* the data variables of the dataset statement s hands to the decoder: the
\* loaded dataset everywhere but in the geomedian branch of VegetationChange,
\* which passes keep_good_only(baseline_ds[all_measurements])
\* (vegetation_change.py:218-234)
DecoderInput(t, s) ==
    IF t = "VegetationChange" /\ s.op = "geomedian_helper"
    THEN all_measurements
    ELSE LoadedMeasurements(product[s.arg])

(* C22: every call of the quality decoder receives a dataset that still    *)
(* holds the platform's QA band, on every reducer branch of                *)
(* VegetationChange, geomedian included.                                   *)
C22_DecoderGetsRawStack ==
    \A i \in DOMAIN log :
        log[i].op \in DecodeOps =>
            product[log[i].arg].qa \in DecoderInput(task, log[i])

----------------------------------------------------------------------------
(* Spatial axis names of the rasters.  dc.load returns the axes y and x;   *)
(* Dataset.rename returns a renamed copy; DataArray.where with a named     *)
(* condition broadcasts over the union of the axes of both operands.       *)
CubeNames == {"baseline", "analysis", "water_baseline", "water_analysis"}

LoadedAxes == {"y", "x"}

\* rename({"x": "longitude", "y": "latitude"}) on a set of axis names
RenameAxes(axes) ==
    {IF a = "x" THEN "longitude" ELSE IF a = "y" THEN "latitude" ELSE a : a \in axes}

\* the result of rename is bound to the variable again, except at
\* fractional_cover.py:150 where the call stands alone
RenameAssigned(t, s) == ~(t = "FractionalCover" /\ s.line = 150)

\* the water occurrence enters the mask as a named raster
\* (fractional_cover.py:159-161, land_change.py:265-271,
\* ndvi_anomaly.py:239-244) or through .values as a bare array
\* (vegetation_change.py:291-296)
MaskOperandNamed(t) == t # "VegetationChange"

RECURSIVE AxesAfter(_, _, _)
\* the axis names of each raster after the statements l, starting from ax
AxesAfter(t, l, ax) ==
    IF l = <<>> THEN ax
    ELSE LET s == Head(l)
             nx == CASE s.op \in LoadOps -> [ax EXCEPT ![s.arg] = LoadedAxes]
                     [] s.op = "rename" /\ RenameAssigned(t, s) ->
                            [ax EXCEPT ![s.arg] = RenameAxes(@)]
                     [] s.op = "water_mask" /\ MaskOperandNamed(t) ->
                            [ax EXCEPT ![s.arg] = @ \cup ax["water_" \o s.arg]]
                     [] OTHER -> ax
         IN  AxesAfter(t, Tail(l), nx)

AxesAt(i) == AxesAfter(task, SubSeq(log, 1, i), [n \in CubeNames |-> {}])

\* the axes of the raster handed to the writer: those of the period
\* rasters it was computed from
OutputAxes(i) == AxesAt(i)["baseline"] \cup AxesAt(i)["analysis"]

\* x_coord and y_coord of export_xarray_to_geotiff
WriterCoords(t) ==
    IF t \in {"AnnualDataProducts", "ArchiveAccess", "FractionalCover", "LandChange",
              "VegetationChange"}
    THEN {"longitude", "latitude"}
    ELSE {"x", "y"}

(* C23: the raster handed to the writer has exactly two spatial axes, they *)
(* are the axes named as x_coord / y_coord, and a composite and the water  *)
(* occurrence it is masked with carry the same axis names.                 *)
C23_OutputGrid ==
    \A i \in DOMAIN log :
        /\ log[i].op = "write" =>
              /\ Cardinality(OutputAxes(i)) = 2
              /\ OutputAxes(i) = WriterCoords(task)
        /\ (log[i].op = "water_mask" /\ MaskOperandNamed(task)) =>
              AxesAt(i - 1)[log[i].arg] = AxesAt(i - 1)["water_" \o log[i].arg]

----------------------------------------------------------------------------
(* The archive tasks AnnualDataProducts and ArchiveAccess: the request     *)
(* sent to the data store and the mean over time, on one pixel.  Product   *)
(* names are token sequences, as the platform identifiers are.             *)
ArchiveTasks == {"AnnualDataProducts", "ArchiveAccess"}

\* annual_data_products.py:34: the declared range of year
Years == {1970, 2017}

\* annual_data_products.py:40, archive_access.py:32
ArchivePlatforms == {LANDSAT_4, LANDSAT_5, LANDSAT_7, LANDSAT_8}

\* annual_data_products.py:47
ArchiveProducts == {"geomedian"}

\* datetime.strptime(f"{year}-{month}-{day}", "%Y-%m-%d")
strptime(y, m, dd) == [year |-> y, month |-> m, day |-> dd]

\* annual_data_products.py:79-84, archive_access.py:62-65: the keyword
\* arguments of dc.load.  ArchiveAccess has no platform argument: the
\* declared platform parameter ends in **kwargs and the product is a literal.
archive_load_kwargs(t, y, pl, prod) ==
    [time |-> <<strptime(y, 1, 1), strptime(y, 12, 31)>>,
     product |-> IF t = "AnnualDataProducts"
                 THEN map_satellite(pl).product \o <<"_", prod, "_annual">>
                 ELSE <<"ls", "8", "_", "geomedian", "_annual">>]

\* a stored pixel: a clear observation or the band's nodata
ArchiveSamples == ClearSamples \cup {Vec(nodata, nodata, nodata)}

InitArchive ==
    /\ task \in ArchiveTasks
    /\ pc = "archive_start"
    /\ year \in Years
    /\ platform \in [{"baseline"} -> ArchivePlatforms]
    /\ product \in (IF task = "AnnualDataProducts" THEN ArchiveProducts ELSE {NotPassed})
    /\ xx_data \in [{"baseline"} -> UNION {[1..len -> ArchiveSamples] : len \in 1..MaxTimeSteps}]
    /\ clean_mask = Unset
    /\ ds_masked = Unset
    /\ composite = Unset
    /\ cube = <<>>
    /\ mosaic_type = NotPassed
    /\ indices = NotPassed
    /\ stmt = 0
    /\ log = <<>>
    /\ error = "none"
    /\ water_scenes = Unset
    /\ UnsetWater
    /\ UnsetQuality
    /\ UnsetAnomaly
    /\ UnsetThres

\* annual_data_products.py:79-84, archive_access.py:62-65
ArchiveLoad ==
    /\ pc = "archive_start"
    /\ cube' = [baseline |-> archive_load_kwargs(task, year, platform["baseline"], product)]
    /\ pc' = "archive_loaded"
    /\ UNCHANGED <<task, year, qualityVars, pixelVars, platform, mosaic_type, indices, product, stmt, log,
                   error>>

\* annual_data_products.py:91, archive_access.py:68: data.mean(dim="time")
ArchiveMean ==
    /\ pc = "archive_loaded"
    /\ composite' = [p \in {"baseline"} |->
                        [k \in Bands |->
                            MeanTime([i \in DOMAIN xx_data[p] |-> Num(xx_data[p][i][k])])]]
    /\ pc' = "archive_mean"
    /\ UNCHANGED <<task, year, qualityVars, waterVars, anomalyVars, thresVars, flowVars, xx_data, clean_mask,
                   ds_masked>>

NextArchive == ArchiveLoad \/ ArchiveMean

SpecArchive == InitArchive /\ [][NextArchive]_vars

----------------------------------------------------------------------------
(* The values the tasks declare for their selector parameters *)

\* Parameter("platform" / "platform_base" / "platform_analysis", ...):
\* fractional_cover.py:74-80, vegetation_change.py:89-102,
\* annual_data_products.py:35-41 list the four Landsat platforms, the other
\* tasks add SENTINEL_2
declared_platform(t) ==
    IF t \in {"FractionalCover", "VegetationChange", "AnnualDataProducts", "ArchiveAccess"}
    THEN {LANDSAT_4, LANDSAT_5, LANDSAT_7, LANDSAT_8}
    ELSE {SENTINEL_2, LANDSAT_4, LANDSAT_5, LANDSAT_7, LANDSAT_8}

\* aggregate_indices.py:63-69, ndvi_anomaly.py:91-97, vegetation_change.py:111-117
declared_mosaic_type(t) ==
    CASE t = "AggregateIndices" -> {"min", "max", "mean", "median"}
      [] t = "NDVIAnomaly" -> {"median", "mean", "max_ndvi"}
      [] t = "VegetationChange" -> {"max", "median", "mean", "geomedian"}
      [] OTHER -> {NotPassed}

\* aggregate_indices.py:70-76, vegetation_change.py:118-124
declared_indices(t) ==
    CASE t = "AggregateIndices" -> {"EVI", "NDVI", "NDWI"}
      [] t = "VegetationChange" -> {"EVI", "NDVI", "FC"}
      [] OTHER -> {NotPassed}

\* every selector of the invocation is one of the declared values
DeclaredInvocation ==
    /\ \A p \in DOMAIN platform : platform[p] \in declared_platform(task)
    /\ mosaic_type \in declared_mosaic_type(task)
    /\ indices \in declared_indices(task)

\* statements that dispatch on a selector
DispatchOps == {"resolve", "map_satellite", "lookup_mosaic", "lookup_index",
                "createparametercomposite"}

(* C25: no dispatch statement (create_product_measurement, map_satellite,  *)
(* the reducer table, the index table or the index branch) raises on an    *)
(* invocation whose selectors are all declared values of the task.         *)
C25_DeclaredValuesDispatch ==
    (pc = "raised" /\ stmt \in DOMAIN Program(task, mosaic_type) /\ Cur.op \in DispatchOps) =>
        ~DeclaredInvocation

C25_Witness ==
    /\ task = "VegetationChange"
    /\ DeclaredInvocation
    /\ mosaic_type = "max"
    /\ indices = "FC"
    /\ Logged("lookup_mosaic")
    /\ Logged("createparametercomposite")
    /\ pc = "returned"

----------------------------------------------------------------------------
(* C26: in LandChange, NDVIAnomaly and WaterQuality an invocation with     *)
(* SENTINEL_2 as any of its platforms does not pass the test that guards   *)
(* the water loads, and no water-classification cube is requested for the  *)
(* Sentinel-2 placeholder product.                                         *)
S2GuardTasks == {"LandChange", "NDVIAnomaly", "WaterQuality"}

S2WaterPlaceholder == <<"SENTINEL_2_PRODUCT DEFS">>

C26_SentinelRejected ==
    task \in S2GuardTasks =>
        /\ (\E p \in DOMAIN platform : platform[p] = SENTINEL_2) =>
              /\ ~Logged("require_landsat")
              /\ pc # "returned"
        /\ \A i \in DOMAIN log :
              log[i].op = "load_water" =>
                  product[PeriodOfWater(log[i].arg)].water_product # S2WaterPlaceholder

----------------------------------------------------------------------------
(* C27: every required argument of generate_product other than dc and      *)
(* path_prefix is a declared Parameter, so no call fails to bind an         *)
(* argument: the call never ends in a TypeError.                           *)
C27_DeclaredBindsRequired ==
    pc # "called" =>
        /\ required_arguments(task) \subseteq declared_parameters(task)
        /\ error # "TypeError"

----------------------------------------------------------------------------
(* C28: for minC and maxC in [-100, 100] in any order, the threshold       *)
(* product of a non-nodata anomaly is one of the codes 100, 200, 300; a    *)
(* pixel coded 200 by the first replacement or 300 by the second keeps its *)
(* code in the later replacements; a value that is both >= maxC and        *)
(* <= minC is coded 200.                                                   *)
ThresholdCodes == {NoChangeCode, IncreaseCode, DecreaseCode}

C28_ThresholdAnyOrder ==
    ~IsNaN(parameter_anomaly) =>
        /\ pc \in {"c", "param_thres"} =>
              (Ge(parameter_anomaly, maxC) => b = IncreaseCode /\ c = IncreaseCode)
        /\ pc = "param_thres" =>
              /\ d \in ThresholdCodes
              /\ Ge(parameter_anomaly, maxC) => d = IncreaseCode
              /\ (Lt(parameter_anomaly, maxC) /\ Le(parameter_anomaly, minC)) =>
                    c = DecreaseCode /\ d = DecreaseCode
              /\ (Ge(parameter_anomaly, maxC) /\ Le(parameter_anomaly, minC)) =>
                    d = IncreaseCode

C28_Witness ==
    /\ pc = "param_thres"
    /\ Gt(minC, maxC)
    /\ parameter_anomaly = Num(0)
    /\ Ge(parameter_anomaly, maxC)
    /\ Le(parameter_anomaly, minC)
    /\ b = IncreaseCode
    /\ d = IncreaseCode

----------------------------------------------------------------------------
(* C29: the two WaterChange outputs agree at the pixel: difference is      *)
(* nodata exactly where difference_range is, which is where either         *)
(* period's occurrence is nodata; elsewhere difference is -1, 0 or 1,      *)
(* +1 only with a positive and -1 only with a negative difference_range.   *)
C29_DifferenceAgrees ==
    pc = "difference" =>
        /\ IsNaN(difference) <=> IsNaN(difference_range)
        /\ IsNaN(difference_range) <=> (\E p \in Periods : IsNaN(water_composite[p]))
        /\ ~IsNaN(difference) =>
              /\ difference \in {Num(-1), Num(0), Num(1)}
              /\ difference = Num(1) => Gt(difference_range, Num(0))
              /\ difference = Num(-1) => Lt(difference_range, Num(0))

C29_Witness ==
    /\ pc = "difference"
    /\ water_composite["baseline"] = waterpres_prob
    /\ water_composite["analysis"] = Frac(2, 10)
    /\ difference = Num(-1)
    /\ difference_range = Frac(-1, 10)

----------------------------------------------------------------------------
(* WaterQuality on one pixel: the masks applied to the imagery, the TSM    *)
(* of each time step and its mean, maximum and minimum over time.  An      *)
(* observation is represented by the TSM its reflectance gives.            *)

\* water_quality.py:125: water_scenes.where(water_scenes > 0)
water_dataset(w) == Where(Num(w), w > 0, NaN)

\* masking by the water classification alone
ds_clear_land_anyquality(x, good, w) == Where(x, Gt(water_dataset(w), Num(0)), NaN)
\* water_quality.py:128-129: ds.where(good_quality), then
\* .where(water_dataset.water_classification > 0)
ds_clear_land(x, good, w) == Where(Where(x, good, NaN), Gt(water_dataset(w), Num(0)), NaN)

\* the TSM function applied to a masked observation: pixel-wise, nodata
\* where the observation is nodata
tsm(x) == IF IsNaN(x) THEN NaN ELSE x

RECURSIVE NanMax(_)
\* DataArray.max(dim="time"): NaN entries are skipped, all-NaN gives NaN
NanMax(s) ==
    IF s = <<>> THEN NaN
    ELSE LET r == NanMax(Tail(s))
         IN  IF IsNaN(Head(s)) THEN r
             ELSE IF IsNaN(r) \/ Gt(Head(s), r) THEN Head(s) ELSE r

RECURSIVE NanMin(_)
\* DataArray.min(dim="time"): NaN entries are skipped, all-NaN gives NaN
NanMin(s) ==
    IF s = <<>> THEN NaN
    ELSE LET r == NanMin(Tail(s))
         IN  IF IsNaN(Head(s)) THEN r
             ELSE IF IsNaN(r) \/ Lt(Head(s), r) THEN Head(s) ELSE r

\* TSM of an observation, water classification values, length of the series
TsmValues == {Num(0), Num(10), Num(150)}

WaterClasses == {NoDataValue, 0, 1}

MaxTsmSteps == 3

InitQuality ==
    /\ task = "WaterQuality"
    /\ pc = "wq_loaded"
    /\ \E len \in 1..MaxTsmSteps :
          /\ tsm_scenes \in [1..len -> TsmValues]
          /\ clean_mask \in [{"baseline"} -> [1..len -> BOOLEAN]]
          /\ water_scenes \in [{"baseline"} -> [1..len -> WaterClasses]]
    /\ tsm_dataset = Unset
    /\ mean_tsm = Unset
    /\ max_tsm = Unset
    /\ min_tsm = Unset
    /\ water_composite = Unset
    /\ wc_rc_int = Unset
    /\ wc_rc = Unset
    /\ difference = Unset
    /\ difference_range = Unset
    /\ UnsetAnomaly
    /\ UnsetThres
    /\ UnsetFlow
    /\ xx_data = Unset
    /\ ds_masked = Unset
    /\ composite = Unset

\* water_quality.py:125-130
WaterQualityMask ==
    /\ pc = "wq_loaded"
    /\ tsm_dataset' = [i \in DOMAIN tsm_scenes |->
                          tsm(ds_clear_land(tsm_scenes[i], clean_mask["baseline"][i],
                                            water_scenes["baseline"][i]))]
    /\ pc' = "tsm_dataset"
    /\ UNCHANGED <<task, year, tsm_scenes, mean_tsm, max_tsm, min_tsm, pixelVars, flowVars>>

\* water_quality.py:132-138
WaterQualityStatistics ==
    /\ pc = "tsm_dataset"
    /\ mean_tsm' = MeanTime(tsm_dataset)
    /\ max_tsm' = NanMax(tsm_dataset)
    /\ min_tsm' = NanMin(tsm_dataset)
    /\ pc' = "tsm_statistics"
    /\ UNCHANGED <<task, year, tsm_scenes, tsm_dataset, pixelVars, flowVars>>

NextQuality == WaterQualityMask \/ WaterQualityStatistics

SpecQuality == InitQuality /\ [][NextQuality]_vars

(* C30: TSM of a time step enters the statistics only where the pixel is   *)
(* good quality and classified as water; min_tsm <= mean_tsm <= max_tsm;   *)
(* the three outputs are nodata together, exactly when no time step        *)
(* qualifies.                                                              *)
Qualifying ==
    {i \in DOMAIN tsm_scenes : clean_mask["baseline"][i] /\ water_scenes["baseline"][i] > 0}

====
